---- MODULE Spec2Model ----
(***************************************************************************)
(* Model of dynamo-record (src/src/dynamoRecord.js): the DynamoRecord      *)
(* table handle, its seven promise-returning operations and the store      *)
(* client's single-shot completions.                                       *)
(*                                                                         *)
(* A JavaScript value is a record tagged with its type t, its payload in   *)
(* the field of that type (b, n, s, xs for an array's elements, es for an  *)
(* object's own enumerable <<key, value>> entries in property order, proto *)
(* for the enumerable entries an object inherits from its prototype).      *)
(*                                                                         *)
(* A JavaScript string, a property key included, is written in ASCII: a    *)
(* UTF-16 code unit from U+0020 to U+007E other than the backslash and the *)
(* grave accent is written as its character, every other code unit as the  *)
(* six characters \uXXXX of its four upper-case hexadecimal digits. Two    *)
(* JavaScript strings are equal exactly when they are written alike, and   *)
(* the concatenation of two is written as the concatenation of their       *)
(* writings. The TLA+ literal "\\u00DFa" is the key of the two code units   *)
(* U+00DF and U+0061; Units and Text go from a writing to its code units   *)
(* and back.                                                               *)
(***************************************************************************)
EXTENDS Integers, Sequences, FiniteSets, TLC

VARIABLES tableName, calls, sent, completion, promise

vars == <<tableName, calls, sent, completion, promise>>

----------------------------------------------------------------------------
(* JavaScript values *)

\* A value of type t with every payload field at its default.
Val(t) ==
  [t |-> t, b |-> FALSE, n |-> 0, s |-> "", xs |-> <<>>, es |-> <<>>,
   proto |-> <<>>]

Undefined == Val("undefined")
Null == Val("null")
Bool(b) == [Val("boolean") EXCEPT !.b = b]
Num(n) == [Val("number") EXCEPT !.n = n]
Str(s) == [Val("string") EXCEPT !.s = s]
Arr(xs) == [Val("array") EXCEPT !.xs = xs]
Obj(es) == [Val("object") EXCEPT !.es = es]
Err(name) == [Val("error") EXCEPT !.s = name]

\* ToBoolean, as `if (x)` and `a && b` apply it.
Truthy(x) ==
  CASE x.t = "undefined" -> FALSE
    [] x.t = "null" -> FALSE
    [] x.t = "boolean" -> x.b
    [] x.t = "number" -> x.n # 0
    [] x.t = "string" -> x.s # ""
    [] OTHER -> TRUE

Digit(d) == SubSeq("0123456789", d + 1, d + 1)

RECURSIVE NumStr(_)
\* ToString of an integer.
NumStr(n) ==
  IF n < 0 THEN "-" \o NumStr(0 - n)
  ELSE IF n < 10 THEN Digit(n)
  ELSE NumStr(n \div 10) \o Digit(n % 10)

RECURSIVE ToStr(_)
\* ToString, as string concatenation and template literals apply it to a key.
ToStr(x) ==
  CASE x.t = "string" -> x.s
    [] x.t = "number" -> NumStr(x.n)
    [] x.t = "boolean" -> IF x.b THEN "true" ELSE "false"
    [] x.t = "undefined" -> "undefined"
    [] x.t = "null" -> "null"
    [] x.t = "array" ->
         IF Len(x.xs) = 0 THEN ""
         ELSE LET last == x.xs[Len(x.xs)]
                  text == IF last.t \in {"undefined", "null"} THEN ""
                          ELSE ToStr(last)
              IN IF Len(x.xs) = 1 THEN text
                 ELSE ToStr([x EXCEPT !.xs = SubSeq(x.xs, 1, Len(x.xs) - 1)])
                        \o "," \o text
    [] OTHER -> "[object Object]"

IsDigit(c) == \E d \in 0..9 : Digit(d) = c

\* The digit a character writes.
DigitVal(c) == CHOOSE d \in 0..9 : Digit(d) = c

RECURSIVE DigitsLess(_, _)
\* a < b, for digit strings of the same length.
DigitsLess(a, b) ==
  IF Len(a) = 0 THEN FALSE
  ELSE IF SubSeq(a, 1, 1) = SubSeq(b, 1, 1)
  THEN DigitsLess(SubSeq(a, 2, Len(a)), SubSeq(b, 2, Len(b)))
  ELSE DigitVal(SubSeq(a, 1, 1)) < DigitVal(SubSeq(b, 1, 1))

\* a < b as integers, for canonical digit strings.
IndexLess(a, b) == Len(a) < Len(b) \/ (Len(a) = Len(b) /\ DigitsLess(a, b))

\* The largest array index, 2^32 - 2, as a key.
MaxArrayIndex == "4294967294"

\* An array index key (a canonical integer up to 2^32 - 2): property order
\* lists these first, ascending; every other key keeps insertion order.
IsIndexKey(k) ==
  /\ Len(k) > 0
  /\ \A i \in 1..Len(k) : IsDigit(SubSeq(k, i, i))
  /\ (Len(k) > 1 => SubSeq(k, 1, 1) # "0")
  /\ ~IndexLess(MaxArrayIndex, k)

\* o has an own property k.
Has(o, k) == o.t = "object" /\ \E i \in 1..Len(o.es) : o.es[i][1] = k

\* The value the first entry of es under key k holds.
Lookup(es, k) ==
  es[CHOOSE i \in 1..Len(es) :
       es[i][1] = k /\ \A j \in 1..(i - 1) : es[j][1] # k][2]

\* Property read o[k]: the own property, else the inherited one; a missing
\* property reads undefined.
Get(o, k) ==
  IF Has(o, k) THEN Lookup(o.es, k)
  ELSE IF o.t = "object" /\ \E i \in 1..Len(o.proto) : o.proto[i][1] = k
  THEN Lookup(o.proto, k)
  ELSE Undefined

Keys(o) == {o.es[i][1] : i \in 1..Len(o.es)}

\* Where a new property k goes in the property order of entries es.
InsertAt(es, k) ==
  IF IsIndexKey(k)
  THEN Cardinality({i \in 1..Len(es) :
                      IsIndexKey(es[i][1]) /\ IndexLess(es[i][1], k)})
  ELSE Len(es)

\* The enumerable entries x hands on as a prototype: its own, then those
\* it inherits itself.
Inheritable(x) ==
  CASE x.t = "object" -> x.es \o x.proto
    [] x.t = "array" -> [i \in 1..Len(x.xs) |-> <<NumStr(i - 1), x.xs[i]>>]
    [] OTHER -> <<>>

\* o.__proto__ = x on an object that has no own property of that name: the
\* setter of Object.prototype runs. An object (or array) becomes the
\* prototype, null leaves none, any other value is ignored; no own
\* property is created.
SetPrototype(o, x) ==
  IF x.t \in {"object", "array", "null"}
  THEN [o EXCEPT !.proto = Inheritable(x)]
  ELSE o

\* Property write o[k] = x: in place when k is an own property, through
\* the prototype setter for __proto__, else a new own property.
SetProp(o, k, x) ==
  IF Has(o, k)
  THEN [o EXCEPT !.es = [i \in 1..Len(o.es) |->
                           IF o.es[i][1] = k THEN <<k, x>> ELSE o.es[i]]]
  ELSE IF k = "__proto__"
  THEN SetPrototype(o, x)
  ELSE LET n == InsertAt(o.es, k)
       IN [o EXCEPT !.es = SubSeq(o.es, 1, n) \o <<<<k, x>>>>
                             \o SubSeq(o.es, n + 1, Len(o.es))]

\* delete o[k]
DeleteProp(o, k) == [o EXCEPT !.es = SelectSeq(o.es, LAMBDA e : e[1] # k)]

----------------------------------------------------------------------------
(* JavaScript strings as UTF-16 code units *)

\* The characters written as themselves, in order: U+0020 to U+005B,
\* U+005D to U+005F and U+0061 to U+007E.
Ascii ==
  " !\"#$%&'()*+,-./0123456789:;<=>?@ABCDEFGHIJKLMNOPQRSTUVWXYZ["
  \o "]^_" \o "abcdefghijklmnopqrstuvwxyz{|}~"

\* The code unit of the i-th character of Ascii.
AsciiUnit(i) == IF i <= 60 THEN 31 + i ELSE IF i <= 63 THEN 32 + i ELSE 33 + i

HexDigits == "0123456789ABCDEF"
HexVal(c) == (CHOOSE i \in 1..Len(HexDigits) : SubSeq(HexDigits, i, i) = c) - 1
Hex(d) == SubSeq(HexDigits, d + 1, d + 1)

\* The code unit each character of Ascii writes.
AsciiCode ==
  [c \in {SubSeq(Ascii, i, i) : i \in 1..Len(Ascii)} |->
     AsciiUnit(CHOOSE i \in 1..Len(Ascii) : SubSeq(Ascii, i, i) = c)]

\* The writing of s starts with a \uXXXX.
IsEscape(s) == SubSeq(s, 1, 1) = "\\"

RECURSIVE Units(_)
\* The UTF-16 code units of the string written s.
Units(s) ==
  IF Len(s) = 0 THEN <<>>
  ELSE IF IsEscape(s)
  THEN <<HexVal(SubSeq(s, 3, 3)) * 4096 + HexVal(SubSeq(s, 4, 4)) * 256
           + HexVal(SubSeq(s, 5, 5)) * 16 + HexVal(SubSeq(s, 6, 6))>>
         \o Units(SubSeq(s, 7, Len(s)))
  ELSE <<AsciiCode[SubSeq(s, 1, 1)]>> \o Units(SubSeq(s, 2, Len(s)))

\* The writing of the one code unit u.
Unit(u) ==
  IF u \in 32..91 THEN SubSeq(Ascii, u - 31, u - 31)
  ELSE IF u \in 93..95 THEN SubSeq(Ascii, u - 32, u - 32)
  ELSE IF u \in 97..126 THEN SubSeq(Ascii, u - 33, u - 33)
  ELSE "\\u" \o Hex(u \div 4096) \o Hex((u \div 256) % 16)
         \o Hex((u \div 16) % 16) \o Hex(u % 16)

RECURSIVE Text(_)
\* The writing of the string of code units us.
Text(us) == IF Len(us) = 0 THEN "" ELSE Unit(us[1]) \o Text(Tail(us))

IsSurrogate(u) == u \in 55296..57343
\* A high surrogate followed by a low one, at position p of us.
IsSurrPair(us, p) ==
  /\ p + 1 <= Len(us)
  /\ us[p] \in 55296..56319
  /\ us[p + 1] \in 56320..57343

\* String.prototype.toUpperCase (Unicode 17, no locale) on code points:
\* <<first, last, step, offset>> in UpperRuns says that every step-th code
\* point from first to last has the upper case offset away from it, and
\* <<p, ps>> in UpperMany that p has the upper case ps, of two or three
\* code points; both list the code points from U+0080 on, below which only
\* a to z have an upper case of their own, 32 below them. Every other code
\* point is its own upper case.
UpperRuns ==
  <<<<181, 181, 1, 743>>, <<224, 246, 1, -32>>, <<248, 254, 1, -32>>,
    <<255, 255, 1, 121>>, <<257, 303, 2, -1>>, <<305, 305, 1, -232>>,
    <<307, 311, 2, -1>>, <<314, 328, 2, -1>>, <<331, 375, 2, -1>>,
    <<378, 382, 2, -1>>, <<383, 383, 1, -300>>, <<384, 384, 1, 195>>,
    <<387, 389, 2, -1>>, <<392, 392, 1, -1>>, <<396, 396, 1, -1>>,
    <<402, 402, 1, -1>>, <<405, 405, 1, 97>>, <<409, 409, 1, -1>>,
    <<410, 410, 1, 163>>, <<411, 411, 1, 42561>>, <<414, 414, 1, 130>>,
    <<417, 421, 2, -1>>, <<424, 424, 1, -1>>, <<429, 429, 1, -1>>,
    <<432, 432, 1, -1>>, <<436, 438, 2, -1>>, <<441, 441, 1, -1>>,
    <<445, 445, 1, -1>>, <<447, 447, 1, 56>>, <<453, 453, 1, -1>>,
    <<454, 454, 1, -2>>, <<456, 456, 1, -1>>, <<457, 457, 1, -2>>,
    <<459, 459, 1, -1>>, <<460, 460, 1, -2>>, <<462, 476, 2, -1>>,
    <<477, 477, 1, -79>>, <<479, 495, 2, -1>>, <<498, 498, 1, -1>>,
    <<499, 499, 1, -2>>, <<501, 501, 1, -1>>, <<505, 543, 2, -1>>,
    <<547, 563, 2, -1>>, <<572, 572, 1, -1>>, <<575, 576, 1, 10815>>,
    <<578, 578, 1, -1>>, <<583, 591, 2, -1>>, <<592, 592, 1, 10783>>,
    <<593, 593, 1, 10780>>, <<594, 594, 1, 10782>>, <<595, 595, 1, -210>>,
    <<596, 596, 1, -206>>, <<598, 599, 1, -205>>, <<601, 601, 1, -202>>,
    <<603, 603, 1, -203>>, <<604, 604, 1, 42319>>, <<608, 608, 1, -205>>,
    <<609, 609, 1, 42315>>, <<611, 611, 1, -207>>, <<612, 612, 1, 42343>>,
    <<613, 613, 1, 42280>>, <<614, 614, 1, 42308>>, <<616, 616, 1, -209>>,
    <<617, 617, 1, -211>>, <<618, 618, 1, 42308>>, <<619, 619, 1, 10743>>,
    <<620, 620, 1, 42305>>, <<623, 623, 1, -211>>, <<625, 625, 1, 10749>>,
    <<626, 626, 1, -213>>, <<629, 629, 1, -214>>, <<637, 637, 1, 10727>>,
    <<640, 640, 1, -218>>, <<642, 642, 1, 42307>>, <<643, 643, 1, -218>>,
    <<647, 647, 1, 42282>>, <<648, 648, 1, -218>>, <<649, 649, 1, -69>>,
    <<650, 651, 1, -217>>, <<652, 652, 1, -71>>, <<658, 658, 1, -219>>,
    <<669, 669, 1, 42261>>, <<670, 670, 1, 42258>>, <<837, 837, 1, 84>>,
    <<881, 883, 2, -1>>, <<887, 887, 1, -1>>, <<891, 893, 1, 130>>,
    <<940, 940, 1, -38>>, <<941, 943, 1, -37>>, <<945, 961, 1, -32>>,
    <<962, 962, 1, -31>>, <<963, 971, 1, -32>>, <<972, 972, 1, -64>>,
    <<973, 974, 1, -63>>, <<976, 976, 1, -62>>, <<977, 977, 1, -57>>,
    <<981, 981, 1, -47>>, <<982, 982, 1, -54>>, <<983, 983, 1, -8>>,
    <<985, 1007, 2, -1>>, <<1008, 1008, 1, -86>>, <<1009, 1009, 1, -80>>,
    <<1010, 1010, 1, 7>>, <<1011, 1011, 1, -116>>, <<1013, 1013, 1, -96>>,
    <<1016, 1016, 1, -1>>, <<1019, 1019, 1, -1>>, <<1072, 1103, 1, -32>>,
    <<1104, 1119, 1, -80>>, <<1121, 1153, 2, -1>>, <<1163, 1215, 2, -1>>,
    <<1218, 1230, 2, -1>>, <<1231, 1231, 1, -15>>, <<1233, 1327, 2, -1>>,
    <<1377, 1414, 1, -48>>, <<4304, 4346, 1, 3008>>, <<4349, 4351, 1, 3008>>,
    <<5112, 5117, 1, -8>>, <<7296, 7296, 1, -6254>>, <<7297, 7297, 1, -6253>>,
    <<7298, 7298, 1, -6244>>, <<7299, 7300, 1, -6242>>, <<7301, 7301, 1, -6243>>,
    <<7302, 7302, 1, -6236>>, <<7303, 7303, 1, -6181>>, <<7304, 7304, 1, 35266>>,
    <<7306, 7306, 1, -1>>, <<7545, 7545, 1, 35332>>, <<7549, 7549, 1, 3814>>,
    <<7566, 7566, 1, 35384>>, <<7681, 7829, 2, -1>>, <<7835, 7835, 1, -59>>,
    <<7841, 7935, 2, -1>>, <<7936, 7943, 1, 8>>, <<7952, 7957, 1, 8>>,
    <<7968, 7975, 1, 8>>, <<7984, 7991, 1, 8>>, <<8000, 8005, 1, 8>>,
    <<8017, 8023, 2, 8>>, <<8032, 8039, 1, 8>>, <<8048, 8049, 1, 74>>,
    <<8050, 8053, 1, 86>>, <<8054, 8055, 1, 100>>, <<8056, 8057, 1, 128>>,
    <<8058, 8059, 1, 112>>, <<8060, 8061, 1, 126>>, <<8112, 8113, 1, 8>>,
    <<8126, 8126, 1, -7205>>, <<8144, 8145, 1, 8>>, <<8160, 8161, 1, 8>>,
    <<8165, 8165, 1, 7>>, <<8526, 8526, 1, -28>>, <<8560, 8575, 1, -16>>,
    <<8580, 8580, 1, -1>>, <<9424, 9449, 1, -26>>, <<11312, 11359, 1, -48>>,
    <<11361, 11361, 1, -1>>, <<11365, 11365, 1, -10795>>, <<11366, 11366, 1, -10792>>,
    <<11368, 11372, 2, -1>>, <<11379, 11379, 1, -1>>, <<11382, 11382, 1, -1>>,
    <<11393, 11491, 2, -1>>, <<11500, 11502, 2, -1>>, <<11507, 11507, 1, -1>>,
    <<11520, 11557, 1, -7264>>, <<11559, 11559, 1, -7264>>, <<11565, 11565, 1, -7264>>,
    <<42561, 42605, 2, -1>>, <<42625, 42651, 2, -1>>, <<42787, 42799, 2, -1>>,
    <<42803, 42863, 2, -1>>, <<42874, 42876, 2, -1>>, <<42879, 42887, 2, -1>>,
    <<42892, 42892, 1, -1>>, <<42897, 42899, 2, -1>>, <<42900, 42900, 1, 48>>,
    <<42903, 42921, 2, -1>>, <<42933, 42947, 2, -1>>, <<42952, 42954, 2, -1>>,
    <<42957, 42971, 2, -1>>, <<42998, 42998, 1, -1>>, <<43859, 43859, 1, -928>>,
    <<43888, 43967, 1, -38864>>, <<65345, 65370, 1, -32>>, <<66600, 66639, 1, -40>>,
    <<66776, 66811, 1, -40>>, <<66967, 66977, 1, -39>>, <<66979, 66993, 1, -39>>,
    <<66995, 67001, 1, -39>>, <<67003, 67004, 1, -39>>, <<68800, 68850, 1, -64>>,
    <<68976, 68997, 1, -32>>, <<71872, 71903, 1, -32>>, <<93792, 93823, 1, -32>>,
    <<93883, 93907, 1, -27>>, <<125218, 125251, 1, -34>>>>

UpperMany ==
  <<<<223, <<83, 83>>>>, <<329, <<700, 78>>>>, <<496, <<74, 780>>>>,
    <<912, <<921, 776, 769>>>>, <<944, <<933, 776, 769>>>>, <<1415, <<1333, 1362>>>>,
    <<7830, <<72, 817>>>>, <<7831, <<84, 776>>>>, <<7832, <<87, 778>>>>,
    <<7833, <<89, 778>>>>, <<7834, <<65, 702>>>>, <<8016, <<933, 787>>>>,
    <<8018, <<933, 787, 768>>>>, <<8020, <<933, 787, 769>>>>, <<8022, <<933, 787, 834>>>>,
    <<8064, <<7944, 921>>>>, <<8065, <<7945, 921>>>>, <<8066, <<7946, 921>>>>,
    <<8067, <<7947, 921>>>>, <<8068, <<7948, 921>>>>, <<8069, <<7949, 921>>>>,
    <<8070, <<7950, 921>>>>, <<8071, <<7951, 921>>>>, <<8072, <<7944, 921>>>>,
    <<8073, <<7945, 921>>>>, <<8074, <<7946, 921>>>>, <<8075, <<7947, 921>>>>,
    <<8076, <<7948, 921>>>>, <<8077, <<7949, 921>>>>, <<8078, <<7950, 921>>>>,
    <<8079, <<7951, 921>>>>, <<8080, <<7976, 921>>>>, <<8081, <<7977, 921>>>>,
    <<8082, <<7978, 921>>>>, <<8083, <<7979, 921>>>>, <<8084, <<7980, 921>>>>,
    <<8085, <<7981, 921>>>>, <<8086, <<7982, 921>>>>, <<8087, <<7983, 921>>>>,
    <<8088, <<7976, 921>>>>, <<8089, <<7977, 921>>>>, <<8090, <<7978, 921>>>>,
    <<8091, <<7979, 921>>>>, <<8092, <<7980, 921>>>>, <<8093, <<7981, 921>>>>,
    <<8094, <<7982, 921>>>>, <<8095, <<7983, 921>>>>, <<8096, <<8040, 921>>>>,
    <<8097, <<8041, 921>>>>, <<8098, <<8042, 921>>>>, <<8099, <<8043, 921>>>>,
    <<8100, <<8044, 921>>>>, <<8101, <<8045, 921>>>>, <<8102, <<8046, 921>>>>,
    <<8103, <<8047, 921>>>>, <<8104, <<8040, 921>>>>, <<8105, <<8041, 921>>>>,
    <<8106, <<8042, 921>>>>, <<8107, <<8043, 921>>>>, <<8108, <<8044, 921>>>>,
    <<8109, <<8045, 921>>>>, <<8110, <<8046, 921>>>>, <<8111, <<8047, 921>>>>,
    <<8114, <<8122, 921>>>>, <<8115, <<913, 921>>>>, <<8116, <<902, 921>>>>,
    <<8118, <<913, 834>>>>, <<8119, <<913, 834, 921>>>>, <<8124, <<913, 921>>>>,
    <<8130, <<8138, 921>>>>, <<8131, <<919, 921>>>>, <<8132, <<905, 921>>>>,
    <<8134, <<919, 834>>>>, <<8135, <<919, 834, 921>>>>, <<8140, <<919, 921>>>>,
    <<8146, <<921, 776, 768>>>>, <<8147, <<921, 776, 769>>>>, <<8150, <<921, 834>>>>,
    <<8151, <<921, 776, 834>>>>, <<8162, <<933, 776, 768>>>>, <<8163, <<933, 776, 769>>>>,
    <<8164, <<929, 787>>>>, <<8166, <<933, 834>>>>, <<8167, <<933, 776, 834>>>>,
    <<8178, <<8186, 921>>>>, <<8179, <<937, 921>>>>, <<8180, <<911, 921>>>>,
    <<8182, <<937, 834>>>>, <<8183, <<937, 834, 921>>>>, <<8188, <<937, 921>>>>,
    <<64256, <<70, 70>>>>, <<64257, <<70, 73>>>>, <<64258, <<70, 76>>>>,
    <<64259, <<70, 70, 73>>>>, <<64260, <<70, 70, 76>>>>, <<64261, <<83, 84>>>>,
    <<64262, <<83, 84>>>>, <<64275, <<1348, 1350>>>>, <<64276, <<1348, 1333>>>>,
    <<64277, <<1348, 1339>>>>, <<64278, <<1358, 1350>>>>, <<64279, <<1348, 1341>>>>>>

InRun(r, p) == r[1] <= p /\ p <= r[2] /\ (p - r[1]) % r[3] = 0

\* The upper case of code point p, as a sequence of code points.
ToUpper(p) ==
  IF p < 128 THEN IF p \in 97..122 THEN <<p - 32>> ELSE <<p>>
  ELSE IF \E i \in 1..Len(UpperRuns) : InRun(UpperRuns[i], p)
  THEN <<p + UpperRuns[CHOOSE i \in 1..Len(UpperRuns) : InRun(UpperRuns[i], p)][4]>>
  ELSE IF \E i \in 1..Len(UpperMany) : UpperMany[i][1] = p
  THEN UpperMany[CHOOSE i \in 1..Len(UpperMany) : UpperMany[i][1] = p][2]
  ELSE <<p>>

\* The code units of code point p.
CodeUnits(p) ==
  IF p < 65536 THEN <<p>>
  ELSE <<55296 + ((p - 65536) \div 1024), 56320 + ((p - 65536) % 1024)>>

RECURSIVE toUpperCase(_)
\* String.prototype.toUpperCase on code units: code point by code point, a
\* surrogate pair being one code point and a lone surrogate itself.
toUpperCase(us) ==
  IF Len(us) = 0 THEN <<>>
  ELSE IF IsSurrPair(us, 1)
  THEN CodeUnits(ToUpper(65536 + (us[1] - 55296) * 1024 + (us[2] - 56320))[1])
         \o toUpperCase(SubSeq(us, 3, Len(us)))
  ELSE ToUpper(us[1]) \o toUpperCase(Tail(us))

----------------------------------------------------------------------------
(* lodash helpers the source imports *)

\* The classes of code units by which lodash splits a string into symbols:
\* combining marks, variation selectors, the zero-width joiner, skin-tone
\* modifiers and regional indicators (both surrogate pairs).
rsCombo(u) == u \in 768..879 \/ u \in 65056..65071 \/ u \in 8400..8447
rsVar(u) == u \in 65038..65039
rsZWJ(u) == u = 8205
rsFitz(us, p) ==
  p + 1 <= Len(us) /\ us[p] = 55356 /\ us[p + 1] \in 57339..57343
rsRegionalUnit(us, p) ==
  p + 1 <= Len(us) /\ us[p] = 55356 /\ us[p + 1] \in 56806..56831
rsRegional(us, p) == rsRegionalUnit(us, p) /\ rsRegionalUnit(us, p + 2)

\* Each of the following takes the position p of the next code unit of us
\* and gives the position after what its pattern matches there.

\* One symbol: a code unit that is no surrogate with an optional combining
\* mark, else a pair of regional indicators, a surrogate pair, or a lone
\* surrogate.
rsSymbol(us, p) ==
  IF ~IsSurrogate(us[p])
  THEN IF p + 1 <= Len(us) /\ rsCombo(us[p + 1]) THEN p + 2 ELSE p + 1
  ELSE IF rsRegional(us, p) THEN p + 4
  ELSE IF IsSurrPair(us, p) THEN p + 2
  ELSE p + 1

\* An optional variation selector.
rsOptVar(us, p) == IF p <= Len(us) /\ rsVar(us[p]) THEN p + 1 ELSE p

\* An optional modifier: a combining mark or a skin-tone modifier.
reOptMod(us, p) ==
  IF p <= Len(us) /\ rsCombo(us[p]) THEN p + 1
  ELSE IF rsFitz(us, p) THEN p + 2
  ELSE p

RECURSIVE rsOptJoin(_, _)
\* Any number of: a joiner, then a code unit that is no surrogate, a pair
\* of regional indicators or a surrogate pair, then an optional variation
\* selector and an optional modifier.
rsOptJoin(us, p) ==
  IF p + 1 <= Len(us) /\ rsZWJ(us[p])
  THEN IF ~IsSurrogate(us[p + 1])
       THEN rsOptJoin(us, reOptMod(us, rsOptVar(us, p + 2)))
       ELSE IF rsRegional(us, p + 1)
       THEN rsOptJoin(us, reOptMod(us, rsOptVar(us, p + 5)))
       ELSE IF IsSurrPair(us, p + 1)
       THEN rsOptJoin(us, reOptMod(us, rsOptVar(us, p + 3)))
       ELSE p
  ELSE p

\* reUnicode: a skin-tone modifier that another one follows, or else a
\* symbol with its optional variation selector, modifier and joined
\* symbols.
reUnicode(us, p) ==
  IF rsFitz(us, p) /\ rsFitz(us, p + 2) THEN p + 2
  ELSE rsOptJoin(us, reOptMod(us, rsOptVar(us, rsSymbol(us, p))))

RECURSIVE stringSize(_, _)
\* The number of symbols of us from position p on.
stringSize(us, p) ==
  IF p > Len(us) THEN 0 ELSE 1 + stringSize(us, reUnicode(us, p))

\* lodash isArrayLike: a string, an array, or an object whose `length` is a
\* non-negative integer.
IsArrayLike(c) ==
  \/ c.t \in {"array", "string"}
  \/ /\ c.t = "object"
     /\ Get(c, "length").t = "number"
     /\ Get(c, "length").n >= 0

\* lodash size
Size(c) ==
  CASE c.t = "array" -> Len(c.xs)
    [] c.t = "string" -> stringSize(Units(c.s), 1)
    [] c.t = "object" ->
         IF IsArrayLike(c) THEN Get(c, "length").n ELSE Len(c.es)
    [] OTHER -> 0

\* The <<key, value>> pairs lodash forEach hands its iteratee, in order:
\* an array-like collection is walked by index 0..length-1, any other object
\* by its own keys, and null, undefined and other primitives not at all.
Entries(c) ==
  CASE c.t = "array" -> [i \in 1..Len(c.xs) |-> <<Num(i - 1), c.xs[i]>>]
    [] c.t = "string" ->
         [i \in 1..Len(Units(c.s)) |-> <<Num(i - 1), Str(Unit(Units(c.s)[i]))>>]
    [] c.t = "object" ->
         IF IsArrayLike(c)
         THEN [i \in 1..Get(c, "length").n |->
                 <<Num(i - 1), Get(c, NumStr(i - 1))>>]
         ELSE [i \in 1..Len(c.es) |-> <<Str(c.es[i][1]), c.es[i][2]>>]
    [] OTHER -> <<>>

\* lodash toString: the empty string for null and undefined.
toString(x) == IF x.t \in {"undefined", "null"} THEN "" ELSE ToStr(x)

\* lodash upperFirst: the string of its argument, its first symbol
\* upper-cased.
upperFirst(x) ==
  LET us == Units(toString(x))
  IN IF Len(us) = 0 THEN ""
     ELSE LET n == reUnicode(us, 1)
          IN Text(toUpperCase(SubSeq(us, 1, n - 1)) \o SubSeq(us, n, Len(us)))

RECURSIVE join(_, _)
\* lodash join of an array of strings.
join(xs, sep) ==
  IF Len(xs) = 0 THEN ""
  ELSE IF Len(xs) = 1 THEN xs[1]
  ELSE xs[1] \o sep \o join(Tail(xs), sep)

\* lodash isArray
isArray(x) == x.t = "array"

----------------------------------------------------------------------------
(* assignConfig *)

RECURSIVE AssignEntries(_, _)
AssignEntries(p, es) ==
  IF Len(es) = 0 THEN p
  ELSE AssignEntries(SetProp(p, upperFirst(es[1][1]), es[1][2]), Tail(es))

\* A copy of params with every entry forEach visits written under its
\* upper-first key.
assignConfig(params, config) == AssignEntries(params, Entries(config))

\* if (config) { params = assignConfig(params, config) }
WithConfig(params, config) ==
  IF Truthy(config) THEN assignConfig(params, config) ELSE params

----------------------------------------------------------------------------
(* Request parameters each operation builds *)

\* o[outer][k] = x, as params.ExpressionAttributeNames["#" + key] = key.
SetIn(o, outer, k, x) == SetProp(o, outer, SetProp(Get(o, outer), k, x))

\* Property read on any value: only objects carry the properties read here.
Prop(x, k) == IF x.t = "object" THEN Get(x, k) ELSE Undefined

\* isArray(value) && value.length === 2
IsRange(value) == isArray(value) /\ Len(value.xs) = 2

\* value.forEach((v, k) => ...): element 0 under :keyStart, element 1
\* under :keyEnd.
BindRange(p, key, value) ==
  SetIn(SetIn(p, "ExpressionAttributeValues",
              ":" \o ToStr(key) \o "Start", value.xs[1]),
        "ExpressionAttributeValues", ":" \o ToStr(key) \o "End", value.xs[2])

\* One pass of the placeholder-binding loop body.
BindEntry(p, key, value) ==
  LET named == SetIn(p, "ExpressionAttributeNames", "#" \o ToStr(key), key)
  IN IF IsRange(value)
     THEN BindRange(named, key, value)
     ELSE SetIn(named, "ExpressionAttributeValues", ":" \o ToStr(key), value)

RECURSIVE BindEntries(_, _)
BindEntries(p, es) ==
  IF Len(es) = 0 THEN p
  ELSE BindEntries(BindEntry(p, es[1][1], es[1][2]), Tail(es))

\* The clause pushed on primaryKeyArray for one entry.
KeyClause(key, value) ==
  IF IsRange(value)
  THEN "#" \o ToStr(key) \o " BETWEEN :" \o ToStr(key) \o "Start AND :"
         \o ToStr(key) \o "End"
  ELSE "#" \o ToStr(key) \o " = :" \o ToStr(key)

\* if (primaryKey) { forEach(primaryKey, ...); params.KeyConditionExpression = join(...) }
WhereKeyStep(p, primaryKey) ==
  IF Truthy(primaryKey)
  THEN LET es == Entries(primaryKey)
           primaryKeyArray == [i \in 1..Len(es) |-> KeyClause(es[i][1], es[i][2])]
       IN SetProp(BindEntries(p, es), "KeyConditionExpression",
                  Str(join(primaryKeyArray, " AND ")))
  ELSE p

\* if (filterExpression && filterExpression.condition && filterExpression.keys) {...}
WhereFilterStep(p, filterExpression) ==
  IF /\ Truthy(filterExpression)
     /\ Truthy(Prop(filterExpression, "condition"))
     /\ Truthy(Prop(filterExpression, "keys"))
  THEN BindEntries(SetProp(p, "FilterExpression",
                           Prop(filterExpression, "condition")),
                   Entries(Prop(filterExpression, "keys")))
  ELSE p

\* if (size(params.X) === 0) { delete params.X }
PruneEmpty(p, field) ==
  IF Size(Get(p, field)) = 0 THEN DeleteProp(p, field) ELSE p

WhereParams(table, primaryKey, filterExpression, config) ==
  LET p0 == Obj(<< <<"TableName", Str(table)>>,
                   <<"ExpressionAttributeNames", Obj(<<>>)>>,
                   <<"ExpressionAttributeValues", Obj(<<>>)>>,
                   <<"ReturnConsumedCapacity", Str("TOTAL")>> >>)
      p1 == WhereKeyStep(p0, primaryKey)
      p2 == WhereFilterStep(p1, filterExpression)
      p3 == PruneEmpty(p2, "ExpressionAttributeNames")
      p4 == PruneEmpty(p3, "ExpressionAttributeValues")
  IN WithConfig(p4, config)

\* Mutant: an empty key specification counts as none.
WhereMethod_EmptyIsAbsent(primaryKey) ==
  IF Truthy(primaryKey) /\ Size(primaryKey) > 0 THEN "query" ELSE "scan"

\* query when a primary key was given, scan otherwise.
WhereMethod(primaryKey) == IF Truthy(primaryKey) THEN "query" ELSE "scan"

FindParams(table, primaryKey, config) ==
  WithConfig(Obj(<< <<"TableName", Str(table)>>,
                    <<"Key", primaryKey>>,
                    <<"ConsistentRead", Bool(TRUE)>>,
                    <<"ReturnConsumedCapacity", Str("TOTAL")>> >>), config)

GetAllParams(table, config) ==
  WithConfig(Obj(<< <<"TableName", Str(table)>>,
                    <<"ReturnConsumedCapacity", Str("TOTAL")>> >>), config)

CreateParams(table, createData, config) ==
  WithConfig(Obj(<< <<"TableName", Str(table)>>,
                    <<"Item", createData>> >>), config)

\* Mutant: the batch is cut to the store's limit of 25 put-requests.
PutRequests_First25(createData) ==
  Arr([i \in 1..(IF Len(createData.xs) > 25 THEN 25 ELSE Len(createData.xs)) |->
         Obj(<< <<"PutRequest", Obj(<< <<"Item", createData.xs[i]>> >>)>> >>)])

\* createData.map(item => ({ PutRequest: { Item: item } }))
PutRequests(createData) ==
  Arr([i \in 1..Len(createData.xs) |->
         Obj(<< <<"PutRequest", Obj(<< <<"Item", createData.xs[i]>> >>)>> >>)])

BatchCreateParams(table, createData, config) ==
  WithConfig(Obj(<< <<"RequestItems",
                      Obj(<< <<table, PutRequests(createData)>> >>)>> >>),
             config)

\* The assignment pushed on updateExpression for one entry.
UpdateClause(key) == "#" \o ToStr(key) \o " = :" \o ToStr(key)

\* One pass of update's loop body: both placeholders, no range form.
UpdateBindEntry(p, key, value) ==
  SetIn(SetIn(p, "ExpressionAttributeNames", "#" \o ToStr(key), key),
        "ExpressionAttributeValues", ":" \o ToStr(key), value)

RECURSIVE UpdateBindEntries(_, _)
UpdateBindEntries(p, es) ==
  IF Len(es) = 0 THEN p
  ELSE UpdateBindEntries(UpdateBindEntry(p, es[1][1], es[1][2]), Tail(es))

\* if (updateData) { forEach(updateData, ...); params.UpdateExpression = `set ${join(...)}` }
UpdateStep(p, updateData) ==
  IF Truthy(updateData)
  THEN LET es == Entries(updateData)
           updateExpression == [i \in 1..Len(es) |-> UpdateClause(es[i][1])]
       IN SetProp(UpdateBindEntries(p, es), "UpdateExpression",
                  Str("set " \o join(updateExpression, ", ")))
  ELSE p

UpdateParams(table, primaryKey, updateData, config) ==
  WithConfig(
    UpdateStep(Obj(<< <<"TableName", Str(table)>>,
                      <<"Key", primaryKey>>,
                      <<"ExpressionAttributeNames", Obj(<<>>)>>,
                      <<"ExpressionAttributeValues", Obj(<<>>)>>,
                      <<"ReturnValues", Str("ALL_NEW")>> >>), updateData),
    config)

DestroyParams(table, primaryKey, config) ==
  WithConfig(Obj(<< <<"TableName", Str(table)>>,
                    <<"Key", primaryKey>> >>), config)

----------------------------------------------------------------------------
(* Bounds and the inputs the caller draws from *)

\* Calls the caller may have outstanding at once.
MaxCalls == 2
\* Entries of a key or update specification.
MaxEntries == 2
\* Length of the longest batch handed to batchCreate.
MaxBatchLen == 26

Slots == 1..MaxCalls

TableNames == {"users", "orders"}

SeqsUpTo(S, n) == UNION {[1..m -> S] : m \in 0..n}

DistinctKeys(es) == \A i, j \in 1..Len(es) : i # j => es[i][1] # es[j][1]

\* The objects of at most n entries, drawn from E, no key twice.
Objects(E, n) == {Obj(es) : es \in {x \in SeqsUpTo(E, n) : DistinctKeys(x)}}

Range2 == Arr(<<Num(18), Num(30)>>)
Range3 == Arr(<<Num(1), Num(2), Num(3)>>)

KeyEntries == {"a", "aStart", "length"} \X {Num(2), Range2, Range3}
KeySpecs == {Undefined} \cup Objects(KeyEntries, MaxEntries)

FilterEntries ==
  {<<"a", Num(7)>>, <<"c", Arr(<<Num(3), Num(4)>>)>>, <<"length", Num(1)>>}
FilterKeySpecs == {Obj(<<>>)} \cup {Obj(<<e>>) : e \in FilterEntries}
FilterSpecs ==
  {Undefined,
   Obj(<< <<"condition", Str("#c > :c")>> >>),
   Obj(<< <<"keys", Obj(<< <<"c", Num(7)>> >>)>> >>)}
  \cup {Obj(<< <<"condition", Str("#c > :c")>>, <<"keys", k>> >>) :
          k \in FilterKeySpecs}

ConfigEntries ==
  {<<"limit", Num(1)>>, <<"Limit", Num(2)>>,
   <<"keyConditionExpression", Str("#k = :k")>>,
   <<"consistentRead", Bool(FALSE)>>, <<"length", Num(1)>>,
   <<"\\u00DFelect", Str("COUNT")>>,
   <<"__proto__", Obj(<< <<"KeyConditionExpression", Str("#k = :k")>> >>)>>}
ConfigSpecs ==
  {Undefined, Obj(<<>>)}
  \cup {Obj(<<e>>) : e \in ConfigEntries}
  \cup {Obj(<<q[1], q[2]>>) :
          q \in {r \in ConfigEntries \X ConfigEntries : r[1][1] # r[2][1]}}

PrimaryKeys == {Undefined, Obj(<< <<"id", Str("1")>> >>)}

UpdateEntries == {"name", "length"} \X {Str("Bob"), Num(2)}
UpdateSpecs == {Undefined} \cup Objects(UpdateEntries, MaxEntries)

Items == {Obj(<< <<"id", Str("1")>> >>), Obj(<< <<"id", Str("2")>> >>)}

\* Batches: every short sequence of items, the long batches of numbered
\* items up to MaxBatchLen, and arguments that are no sequence at all.
BatchSpecs ==
  {Arr(xs) : xs \in SeqsUpTo(Items, MaxEntries)}
  \cup {Arr([i \in 1..n |-> Obj(<< <<"id", Num(i)>> >>)]) : n \in 0..MaxBatchLen}
  \cup {Undefined, Obj(<< <<"id", Str("1")>> >>)}

\* What the store hands a completion: (error, data).
Outcomes ==
  {<<Null, Obj(<< <<"Count", Num(1)>> >>)>>,
   <<Err("ThrottlingException"), Null>>,
   <<Err("ValidationException"), Null>>}

----------------------------------------------------------------------------
(* State *)

NoCall == [op |-> "none", args |-> <<>>]
NoPromise == [state |-> "none", value |-> Undefined]
Pending == [state |-> "pending", value |-> Undefined]
NoCompletion == [fired |-> FALSE, error |-> Undefined, data |-> Undefined]

\* new DynamoRecord(tableName, tableRegion): the name is fixed, nothing is
\* outstanding.
Init ==
  /\ tableName \in TableNames
  /\ calls = [s \in Slots |-> NoCall]
  /\ sent = [s \in Slots |-> <<>>]
  /\ completion = [s \in Slots |-> NoCompletion]
  /\ promise = [s \in Slots |-> NoPromise]

\* The slot a new call takes: the lowest free one.
IsFree(s) == calls[s] = NoCall /\ \A r \in Slots : r < s => calls[r] # NoCall

\* resolve / reject: only a pending promise settles.
Settle(p, state, value) ==
  IF p.state = "pending" THEN [state |-> state, value |-> value] ELSE p

\* The callback every operation hands the store: reject(error) when error
\* is truthy, resolve(data) otherwise.
Callback(p, error, data) ==
  IF Truthy(error) THEN Settle(p, "rejected", error)
  ELSE Settle(p, "fulfilled", data)

\* new Promise(executor) whose executor hands one request to the store.
Dispatch(s, op, args, method, params) ==
  /\ IsFree(s)
  /\ calls' = [calls EXCEPT ![s] = [op |-> op, args |-> args]]
  /\ sent' = [sent EXCEPT ![s] = <<[method |-> method, params |-> params]>>]
  /\ promise' = [promise EXCEPT ![s] = Pending]
  /\ UNCHANGED <<tableName, completion>>

\* new Promise(executor) whose executor throws before any request: the
\* promise is rejected with what was thrown.
Throw(s, op, args, error) ==
  /\ IsFree(s)
  /\ calls' = [calls EXCEPT ![s] = [op |-> op, args |-> args]]
  /\ promise' = [promise EXCEPT ![s] = Settle(Pending, "rejected", error)]
  /\ UNCHANGED <<tableName, sent, completion>>

Find(s, primaryKey, config) ==
  Dispatch(s, "find", <<primaryKey, config>>, "get",
           FindParams(tableName, primaryKey, config))

Where(s, primaryKey, filterExpression, config) ==
  Dispatch(s, "where", <<primaryKey, filterExpression, config>>,
           WhereMethod(primaryKey),
           WhereParams(tableName, primaryKey, filterExpression, config))

GetAll(s, config) ==
  Dispatch(s, "getAll", <<config>>, "scan", GetAllParams(tableName, config))

Create(s, createData, config) ==
  Dispatch(s, "create", <<createData, config>>, "put",
           CreateParams(tableName, createData, config))

\* createData.map is a TypeError unless createData is an array.
BatchCreate(s, createData, config) ==
  IF isArray(createData)
  THEN Dispatch(s, "batchCreate", <<createData, config>>, "batchWrite",
                BatchCreateParams(tableName, createData, config))
  ELSE Throw(s, "batchCreate", <<createData, config>>, Err("TypeError"))

Update(s, primaryKey, updateData, config) ==
  Dispatch(s, "update", <<primaryKey, updateData, config>>, "update",
           UpdateParams(tableName, primaryKey, updateData, config))

Destroy(s, primaryKey, config) ==
  Dispatch(s, "destroy", <<primaryKey, config>>, "delete",
           DestroyParams(tableName, primaryKey, config))

\* Mutant: the callback settles the promise of the oldest pending call,
\* as one callback shared between calls would.
Complete_OldestPending(s, error, data) ==
  /\ Len(sent[s]) > 0
  /\ ~completion[s].fired
  /\ completion' = [completion EXCEPT
                      ![s] = [fired |-> TRUE, error |-> error, data |-> data]]
  /\ LET r == CHOOSE x \in Slots :
                /\ promise[x].state = "pending"
                /\ \A y \in Slots : promise[y].state = "pending" => x <= y
     IN promise' = [promise EXCEPT ![r] = Callback(promise[r], error, data)]
  /\ UNCHANGED <<tableName, calls, sent>>

\* The store fires the completion of call s's request, once.
Complete(s, error, data) ==
  /\ Len(sent[s]) > 0
  /\ ~completion[s].fired
  /\ completion' = [completion EXCEPT
                      ![s] = [fired |-> TRUE, error |-> error, data |-> data]]
  /\ promise' = [promise EXCEPT ![s] = Callback(promise[s], error, data)]
  /\ UNCHANGED <<tableName, calls, sent>>

\* The caller takes the settled result of call s; the call is over.
Await(s) ==
  /\ promise[s].state \in {"fulfilled", "rejected"}
  /\ calls' = [calls EXCEPT ![s] = NoCall]
  /\ sent' = [sent EXCEPT ![s] = <<>>]
  /\ completion' = [completion EXCEPT ![s] = NoCompletion]
  /\ promise' = [promise EXCEPT ![s] = NoPromise]
  /\ UNCHANGED tableName

----------------------------------------------------------------------------
(* Specifications *)

\* A caller that issues one call at a time, over the whole input space.
Idle == \A s \in Slots : calls[s] = NoCall

NextSequential ==
  \/ Idle /\ \E s \in Slots, k \in PrimaryKeys, c \in ConfigSpecs :
       Find(s, k, c)
  \/ Idle /\ \E s \in Slots, k \in KeySpecs, f \in FilterSpecs, c \in ConfigSpecs :
       Where(s, k, f, c)
  \/ Idle /\ \E s \in Slots, c \in ConfigSpecs : GetAll(s, c)
  \/ Idle /\ \E s \in Slots, d \in Items, c \in ConfigSpecs : Create(s, d, c)
  \/ Idle /\ \E s \in Slots, d \in BatchSpecs, c \in ConfigSpecs :
       BatchCreate(s, d, c)
  \/ Idle /\ \E s \in Slots, k \in PrimaryKeys, u \in UpdateSpecs, c \in ConfigSpecs :
       Update(s, k, u, c)
  \/ Idle /\ \E s \in Slots, k \in PrimaryKeys, c \in ConfigSpecs :
       Destroy(s, k, c)
  \/ \E s \in Slots, o \in Outcomes : Complete(s, o[1], o[2])
  \/ \E s \in Slots : Await(s)

SpecSequential == Init /\ [][NextSequential]_vars

\* A caller that keeps up to MaxCalls calls outstanding, over a few inputs
\* of each operation (well-formed and malformed).
FewKeySpecs ==
  {Undefined, Obj(<<>>), Obj(<< <<"a", Range3>> >>),
   Obj(<< <<"status", Str("active")>>, <<"age", Range2>> >>)}
FewBatchSpecs ==
  {Undefined, Obj(<< <<"id", Str("1")>> >>), Arr(<<>>),
   Arr(<<Obj(<< <<"id", Str("1")>> >>), Obj(<< <<"id", Str("2")>> >>)>>)}
FewUpdateSpecs == {Undefined, Obj(<<>>), Obj(<< <<"name", Str("Bob")>> >>)}

Next ==
  \/ \E s \in Slots, k \in PrimaryKeys : Find(s, k, Undefined)
  \/ \E s \in Slots, k \in FewKeySpecs : Where(s, k, Undefined, Undefined)
  \/ \E s \in Slots : GetAll(s, Undefined)
  \/ \E s \in Slots, d \in Items : Create(s, d, Undefined)
  \/ \E s \in Slots, d \in FewBatchSpecs : BatchCreate(s, d, Undefined)
  \/ \E s \in Slots, k \in PrimaryKeys, u \in FewUpdateSpecs :
       Update(s, k, u, Undefined)
  \/ \E s \in Slots, k \in PrimaryKeys : Destroy(s, k, Undefined)
  \/ \E s \in Slots, o \in Outcomes : Complete(s, o[1], o[2])
  \/ \E s \in Slots : Await(s)

Spec == Init /\ [][Next]_vars

----------------------------------------------------------------------------
(* Vocabulary of the claims *)

CallsOf(op) == {s \in Slots : calls[s].op = op}
Args(s) == calls[s].args
Method(s) == sent[s][1].method
Params(s) == sent[s][1].params
Names(s) == Get(Params(s), "ExpressionAttributeNames")
Values(s) == Get(Params(s), "ExpressionAttributeValues")

\* A specification was supplied: the argument is a mapping.
Supplied(x) == x.t = "object"

RECURSIVE Joined(_, _)
\* The strings xs written one after another with sep between them.
Joined(xs, sep) ==
  IF Len(xs) = 0 THEN ""
  ELSE IF Len(xs) = 1 THEN xs[1]
  ELSE Joined(SubSeq(xs, 1, Len(xs) - 1), sep) \o sep \o xs[Len(xs)]

\* The clause the specification gives entry e of a key specification.
ExpectedClause(e) ==
  IF e[2].t = "array" /\ Len(e[2].xs) = 2
  THEN "#" \o e[1] \o " BETWEEN :" \o e[1] \o "Start AND :" \o e[1] \o "End"
  ELSE "#" \o e[1] \o " = :" \o e[1]

\* Entry e of a key or filter-keys mapping is bound in call s's request the
\* way the specification binds it.
Bound(s, e) ==
  /\ Get(Names(s), "#" \o e[1]) = Str(e[1])
  /\ IF e[2].t = "array" /\ Len(e[2].xs) = 2
     THEN /\ Get(Values(s), ":" \o e[1] \o "Start") = e[2].xs[1]
          /\ Get(Values(s), ":" \o e[1] \o "End") = e[2].xs[2]
     ELSE /\ Has(Values(s), ":" \o e[1])
          /\ Get(Values(s), ":" \o e[1]) = e[2]

----------------------------------------------------------------------------
(* C1 *)

\* The request of a where call goes to query exactly when a key
\* specification was supplied, and to scan otherwise.
DispatchesByKeySpec(s) ==
  /\ Len(sent[s]) = 1
  /\ Method(s) \in {"query", "scan"}
  /\ Method(s) = "query" <=> Supplied(Args(s)[1])

\* The overrides have an entry for the key condition, under either
\* spelling of its key.
NamesKeyCondition(config) ==
  /\ config.t = "object"
  /\ Keys(config) \cap {"keyConditionExpression", "KeyConditionExpression"} # {}

\* C1 as stated: where dispatches to query exactly when a key
\* specification is supplied and to scan otherwise, and a request that
\* goes to scan carries no KeyConditionExpression, whatever the overrides.
C1_Original ==
  \A s \in CallsOf("where") :
    /\ DispatchesByKeySpec(s)
    /\ Method(s) = "scan" => ~Has(Params(s), "KeyConditionExpression")

\* C1 as amended: where dispatches to query exactly when a key
\* specification is supplied and to scan otherwise, and a request that
\* goes to scan carries no KeyConditionExpression unless the overrides
\* name one.
C1_ScanCarriesNoKeyCondition ==
  \A s \in CallsOf("where") :
    /\ DispatchesByKeySpec(s)
    /\ (Method(s) = "scan" /\ ~NamesKeyCondition(Args(s)[3]))
         => ~Has(Params(s), "KeyConditionExpression")

\* A where call without key specification, with overrides that name no
\* key condition, has gone to scan.
C1_Witness ==
  \E s \in CallsOf("where") :
    /\ Args(s)[1] = Undefined
    /\ Supplied(Args(s)[3]) /\ Len(Args(s)[3].es) > 0
    /\ ~NamesKeyCondition(Args(s)[3])
    /\ Len(sent[s]) = 1 /\ Method(s) = "scan"

----------------------------------------------------------------------------
(* C7 *)

\* C7: a batchCreate(items) call with a sequence of N items dispatches
\* exactly one batch-write request whose RequestItems has the table name
\* as its only key, bound to N put-requests, the i-th wrapping item i.
C7_OneBatchRequest ==
  \A s \in CallsOf("batchCreate") :
    (isArray(Args(s)[1]) /\ Args(s)[2] = Undefined) =>
      /\ Len(sent[s]) = 1
      /\ Method(s) = "batchWrite"
      /\ Keys(Params(s)) = {"RequestItems"}
      /\ LET items == Args(s)[1].xs
             groups == Get(Params(s), "RequestItems")
             puts == Get(groups, tableName)
         IN /\ groups.t = "object"
            /\ Len(groups.es) = 1
            /\ Keys(groups) = {tableName}
            /\ puts.t = "array"
            /\ Len(puts.xs) = Len(items)
            /\ \A i \in 1..Len(items) :
                 puts.xs[i]
                   = Obj(<< <<"PutRequest", Obj(<< <<"Item", items[i]>> >>)>> >>)

\* A batch of more than 25 items has been dispatched.
C7_Witness ==
  \E s \in CallsOf("batchCreate") :
    /\ isArray(Args(s)[1]) /\ Len(Args(s)[1].xs) > 25
    /\ Args(s)[2] = Undefined
    /\ Len(sent[s]) = 1

----------------------------------------------------------------------------
(* C2 *)

AllScalar(o) == \A i \in 1..Len(o.es) : o.es[i][2].t # "array"

\* C2: for a key specification whose values are all scalars (no filter,
\* no overrides), KeyConditionExpression is the clauses `#name = :name`,
\* one per entry in the mapping's order, joined by " AND ", and every
\* attribute name is bound once in ExpressionAttributeNames (#name -> name)
\* and once in ExpressionAttributeValues (:name -> value).
C2_Original ==
  \A s \in CallsOf("where") :
    LET k == Args(s)[1]
    IN (/\ Supplied(k) /\ AllScalar(k)
        /\ Args(s)[2] = Undefined /\ Args(s)[3] = Undefined) =>
         /\ Get(Params(s), "KeyConditionExpression")
              = Str(Joined([i \in 1..Len(k.es) |->
                              "#" \o k.es[i][1] \o " = :" \o k.es[i][1]], " AND "))
         /\ \A i \in 1..Len(k.es) : Bound(s, k.es[i])
         /\ Len(k.es) > 0 =>
              /\ Keys(Names(s)) = {"#" \o k.es[i][1] : i \in 1..Len(k.es)}
              /\ Keys(Values(s)) = {":" \o k.es[i][1] : i \in 1..Len(k.es)}

----------------------------------------------------------------------------
(* C3 *)

\* C3: for a key specification holding a 2-element range [s, e] under
\* attribute a, whatever its other attributes (no filter, no overrides,
\* no attribute named length), the clause for a is
\* `#a BETWEEN :aStart AND :aEnd`, :aStart is bound to s and :aEnd to e.
C3_Original ==
  \A s \in CallsOf("where") :
    LET k == Args(s)[1]
    IN (/\ Supplied(k) /\ ~Has(k, "length")
        /\ Args(s)[2] = Undefined /\ Args(s)[3] = Undefined) =>
         /\ Get(Params(s), "KeyConditionExpression")
              = Str(Joined([i \in 1..Len(k.es) |-> ExpectedClause(k.es[i])],
                           " AND "))
         /\ \A i \in 1..Len(k.es) :
              (k.es[i][2].t = "array" /\ Len(k.es[i][2].xs) = 2) =>
                /\ Get(Values(s), ":" \o k.es[i][1] \o "Start") = k.es[i][2].xs[1]
                /\ Get(Values(s), ":" \o k.es[i][1] \o "End") = k.es[i][2].xs[2]

----------------------------------------------------------------------------
(* C4 *)

SendsEmpty(s, field) ==
  Has(Params(s), field) /\ Get(Params(s), field) = Obj(<<>>)

\* C4: the request where or update dispatches (no overrides) never
\* carries an empty ExpressionAttributeNames or ExpressionAttributeValues:
\* a mapping that was computed empty is left out of the request.
C4_Original ==
  \A s \in CallsOf("where") \cup CallsOf("update") :
    Args(s)[3] = Undefined =>
      /\ ~SendsEmpty(s, "ExpressionAttributeNames")
      /\ ~SendsEmpty(s, "ExpressionAttributeValues")

----------------------------------------------------------------------------
(* C5 *)

\* The parameters an operation generates before overrides are applied.
Generated(c) ==
  CASE c.op = "find" -> FindParams(tableName, c.args[1], Undefined)
    [] c.op = "where" -> WhereParams(tableName, c.args[1], c.args[2], Undefined)
    [] c.op = "getAll" -> GetAllParams(tableName, Undefined)
    [] c.op = "create" -> CreateParams(tableName, c.args[1], Undefined)
    [] c.op = "batchCreate" ->
         BatchCreateParams(tableName, c.args[1], Undefined)
    [] c.op = "update" ->
         UpdateParams(tableName, c.args[1], c.args[2], Undefined)
    [] c.op = "destroy" -> DestroyParams(tableName, c.args[1], Undefined)

\* The first character of k capitalized.
Capitalized(k) ==
  LET us == Units(k)
  IN IF Len(us) = 0 THEN k
     ELSE Text(toUpperCase(SubSeq(us, 1, 1)) \o Tail(us))

\* No two override keys name the same request field.
NamesFieldsOnce(config) ==
  \A i, j \in 1..Len(config.es) :
    i # j => Capitalized(config.es[i][1]) # Capitalized(config.es[j][1])

\* C5: for every operation and every override configuration (whose keys
\* name distinct fields), each override entry (k, v) is dispatched as
\* field Capitalized(k) = v, also over a generated value, and every
\* generated field no override names is dispatched unchanged.
C5_Original ==
  \A s \in Slots :
    LET config == Args(s)[Len(Args(s))]
    IN (/\ calls[s] # NoCall /\ Len(sent[s]) = 1
        /\ Supplied(config) /\ NamesFieldsOnce(config)) =>
         /\ \A i \in 1..Len(config.es) :
              /\ Has(Params(s), Capitalized(config.es[i][1]))
              /\ Get(Params(s), Capitalized(config.es[i][1])) = config.es[i][2]
         /\ \A f \in Keys(Generated(calls[s])) :
              f \notin {Capitalized(config.es[i][1]) : i \in 1..Len(config.es)} =>
                /\ Has(Params(s), f)
                /\ Get(Params(s), f) = Get(Generated(calls[s]), f)

----------------------------------------------------------------------------
(* C6 *)

\* C6: update(keySpec, updateSpec) without overrides dispatches an
\* update request with Key = keySpec, UpdateExpression = "set " followed by
\* the assignments `#name = :name` of updateSpec's entries in order joined
\* by ", ", names and values bound for exactly those entries, and
\* ReturnValues = ALL_NEW.
C6_Original ==
  \A s \in CallsOf("update") :
    LET u == Args(s)[2]
    IN (Supplied(u) /\ Args(s)[3] = Undefined) =>
         /\ Len(sent[s]) = 1 /\ Method(s) = "update"
         /\ Get(Params(s), "Key") = Args(s)[1]
         /\ Get(Params(s), "UpdateExpression")
              = Str("set " \o Joined([i \in 1..Len(u.es) |->
                                       "#" \o u.es[i][1] \o " = :" \o u.es[i][1]],
                                     ", "))
         /\ Names(s) = Obj([i \in 1..Len(u.es) |->
                              <<"#" \o u.es[i][1], Str(u.es[i][1])>>])
         /\ Values(s) = Obj([i \in 1..Len(u.es) |->
                               <<":" \o u.es[i][1], u.es[i][2]>>])
         /\ Get(Params(s), "ReturnValues") = Str("ALL_NEW")

----------------------------------------------------------------------------
(* C10 *)

Contributes(f) ==
  /\ Supplied(f)
  /\ Truthy(Get(f, "condition"))
  /\ Supplied(Get(f, "keys"))

\* C10: in a where call (no key specification, no overrides), a filter
\* specification without both a condition and a keys mapping adds neither
\* FilterExpression nor any binding; one with both sets FilterExpression to
\* the condition verbatim and binds every keys entry by the scalar-or-range
\* rule in ExpressionAttributeNames / ExpressionAttributeValues.
C10_Original ==
  \A s \in CallsOf("where") :
    LET f == Args(s)[2]
    IN (Args(s)[1] = Undefined /\ Args(s)[3] = Undefined) =>
         IF Contributes(f)
         THEN /\ Get(Params(s), "FilterExpression") = Get(f, "condition")
              /\ \A i \in 1..Len(Get(f, "keys").es) : Bound(s, Get(f, "keys").es[i])
         ELSE /\ ~Has(Params(s), "FilterExpression")
              /\ ~Has(Params(s), "ExpressionAttributeNames")
              /\ ~Has(Params(s), "ExpressionAttributeValues")

----------------------------------------------------------------------------
(* C8 *)

\* What a completion (error, data) makes of the promise it belongs to.
SettledBy(c) ==
  IF c.error # Null
  THEN [state |-> "rejected", value |-> c.error]
  ELSE [state |-> "fulfilled", value |-> c.data]

\* C8: with any number of calls in flight and their completions fired
\* in any order, the result of each call whose request is at the store is
\* pending until its own completion fires, and from then on is that
\* completion's error, rejected and unchanged, or else its data, resolved.
C8_SettledByOwnCompletion ==
  \A s \in Slots :
    Len(sent[s]) > 0 =>
      IF completion[s].fired
      THEN promise[s] = SettledBy(completion[s])
      ELSE promise[s] = Pending

\* Two calls are in flight; the later one's completion has fired with an
\* error and rejected it while the earlier one is still pending.
C8_Witness ==
  \E s, r \in Slots :
    /\ s < r
    /\ Len(sent[s]) = 1 /\ Len(sent[r]) = 1
    /\ ~completion[s].fired /\ promise[s] = Pending
    /\ completion[r].fired /\ completion[r].error.t = "error"
    /\ promise[r] = [state |-> "rejected", value |-> completion[r].error]

----------------------------------------------------------------------------
(* C9 *)

\* C9: every call, whatever its input, has exactly one request at the
\* store, and its result is pending until that request's completion fires.
C9_Original ==
  \A s \in Slots :
    calls[s] # NoCall =>
      /\ Len(sent[s]) = 1
      /\ promise[s].state \in {"fulfilled", "rejected"} => completion[s].fired
      /\ ~completion[s].fired => promise[s] = Pending

====
